---------------------------- MODULE Spec2Model ----------------------------
(***************************************************************************)
(* gemini-rs (crate gemini_oxide): the subprocess RPC core of src/lib.rs.  *)
(*                                                                         *)
(* One request is modelled from the call of text(), json() or stream() to  *)
(* its result: the command (build_command), the spawn, the background      *)
(* Stdin Feeder (write_stdin), the                                         *)
(* three bounded OS pipes, the subprocess, the buffered Output Collector   *)
(* (execute_process / wait_with_output) and the Event Stream Reader        *)
(* (the try_stream! block of stream()).                                    *)
(*                                                                         *)
(* Bytes travel in units: a unit is a short string, the smallest piece a   *)
(* write or a read moves.  In streaming mode a unit of stdout is one line  *)
(* (its terminator removed, as Lines::next_line returns it).               *)
(***************************************************************************)
EXTENDS Naturals, Sequences, FiniteSets, TLC

\* ------------------------------------------------------------------ bounds

\* Largest pipe capacity, in units; every capacity 1..MaxPipeCap is explored.
MaxPipeCap == 2

\* Longest sequence of stdout lines a streaming subprocess writes.
MaxLines == 3

\* ------------------------------------------------------------ environment

NL == "\n"

\* A unit that is not valid UTF-8 (from_utf8_lossy and read_line see it).
InvalidUtf8 == "<FF FE>"

\* What from_utf8_lossy puts in its place (U+FFFD).
Replacement == "<U+FFFD>"

\* Units that consist of Unicode white space only (str::trim removes them at
\* the ends; a line made of them is blank).
WhiteUnits == {"", " ", "  ", NL, "\t "}

\* Option<T>: None is the empty sequence, Some(v) the one-element sequence.
None == <<>>

Some(v) == <<v>>

IsSome(o) == o # <<>>

Unwrap(o) == o[1]

\* The files the request may name, as tokio::fs::read finds them.
Readable == {"big.txt", "a.txt", "empty.txt"}

FileContent(path) ==
    CASE path = "big.txt"   -> <<"b", "i", "g">>
      [] path = "a.txt"     -> <<"a">>
      [] path = "empty.txt" -> <<>>
      [] OTHER              -> <<>>

\* The concatenation of a sequence of units into one string.
RECURSIVE Concat(_)
Concat(us) == IF us = <<>> THEN "" ELSE Head(us) \o Concat(Tail(us))

\* String::from_utf8_lossy, unit by unit.
RECURSIVE from_utf8_lossy(_)
from_utf8_lossy(us) ==
    IF us = <<>> THEN <<>>
    ELSE <<IF Head(us) = InvalidUtf8 THEN Replacement ELSE Head(us)>>
         \o from_utf8_lossy(Tail(us))

RECURSIVE TrimStart(_)
TrimStart(us) ==
    IF us # <<>> /\ Head(us) \in WhiteUnits THEN TrimStart(Tail(us)) ELSE us

RECURSIVE TrimEnd(_)
TrimEnd(us) ==
    IF us # <<>> /\ us[Len(us)] \in WhiteUnits
    THEN TrimEnd(SubSeq(us, 1, Len(us) - 1)) ELSE us

\* str::trim, at the granularity of units.
trim(us) == TrimEnd(TrimStart(us))


\* ------------------------------------------------------------ JSON values

\* A parsed JSON value (serde_json's data model).
JNull == [t |-> "null"]

JStr(s) == [t |-> "str", s |-> s]

JNum(n) == [t |-> "num", n |-> n]

JBool(b) == [t |-> "bool", b |-> b]

JObj(f) == [t |-> "obj", o |-> f]

JArr(a) == [t |-> "arr", a |-> a]

\* The text is not one JSON value (serde_json reports a syntax or EOF error).
SyntaxError == [t |-> "syntax_error"]

\* The units serde_json skips around a document (space, tab, LF, CR only).
JsonWhiteUnits == {"", " ", "  ", NL, "\t "}

RECURSIVE SkipJsonWhite(_)
SkipJsonWhite(us) ==
    IF us # <<>> /\ Head(us) \in JsonWhiteUnits THEN SkipJsonWhite(Tail(us)) ELSE us

RECURSIVE DropJsonWhiteEnd(_)
DropJsonWhiteEnd(us) ==
    IF us # <<>> /\ us[Len(us)] \in JsonWhiteUnits
    THEN DropJsonWhiteEnd(SubSeq(us, 1, Len(us) - 1)) ELSE us

\* The stdout documents of buffered mode, as the subprocess writes them.
DocPlain == <<"Here is ", "your answer">>

DocText == <<"  ", "hello", NL>>

DocOk == <<"{\"response\":", "\"hi\"}", NL>>

DocStats ==
    << "{\"response\":\"Mock response\",\"stats\":{\"models\":{\"m\":{\"api\":{\"totalRequests\":1},\"tokens\":{\"total\":10}}},",
       "\"tools\":{\"totalCalls\":1,\"totalSuccess\":1,\"totalFail\":0},\"files\":{\"totalLinesAdded\":0,\"totalLinesRemoved\":0}}}" >>

DocApiError ==
    << "{\"response\":\"\",\"error\":",
       "{\"type\":\"quota\",\"message\":\"Quota exceeded\",\"code\":429}}" >>

DocErrorNull == <<"{\"response\":\"hi\",", "\"error\":null}">>

DocErrorOnly == <<"{\"error\":", "{\"type\":\"quota\",\"message\":\"Quota exceeded\"}}">>

DocErrorString == <<"{\"response\":\"hi\",", "\"error\":\"boom\"}">>

DocTruncated == <<"{\"response\":">>

DocString == <<"\"just a string\"">>

DocArray == <<"[\"hi\"", "]">>

DocArrayError == <<"[\"\",null,", "[\"quota\",\"Quota exceeded\",429]]">>

DocExtra == <<"{\"response\":\"hi\",", "\"extra\":1}">>

QuotaDetail429 ==
    JObj("type" :> JStr("quota") @@ "message" :> JStr("Quota exceeded")
         @@ "code" :> JNum(429))

QuotaDetail ==
    JObj("type" :> JStr("quota") @@ "message" :> JStr("Quota exceeded"))

StatsValue ==
    JObj("models" :> JObj("m" :> JObj("api" :> JObj("totalRequests" :> JNum(1))
                                      @@ "tokens" :> JObj("total" :> JNum(10))))
         @@ "tools" :> JObj("totalCalls" :> JNum(1) @@ "totalSuccess" :> JNum(1)
                            @@ "totalFail" :> JNum(0))
         @@ "files" :> JObj("totalLinesAdded" :> JNum(0)
                            @@ "totalLinesRemoved" :> JNum(0)))

\* The stdout lines of streaming mode.
LineInit == "{\"type\":\"init\",\"session_id\":\"s1\",\"model\":\"m\",\"timestamp\":\"t0\"}"

LineMessage == "{\"type\":\"message\",\"role\":\"assistant\",\"content\":\"Hel\",\"delta\":true,\"timestamp\":\"t1\"}"

LineResult == "{\"type\":\"result\",\"status\":\"success\",\"stats\":{},\"timestamp\":\"t2\"}"

LineError == "{\"type\":\"error\",\"message\":\"boom\"}"

LineUnknownType == "{\"type\":\"debug\",\"message\":\"x\"}"

LineMissingField == "{\"type\":\"init\",\"model\":\"m\"}"

LineNotJson == "not json"

\* serde_json's parser on a whole text: the value it reads, or a syntax error.
\* The texts the subprocesses of this model write are tabulated; any other
\* text here (plain text, a truncated document, invalid UTF-8) is not JSON.
ParseJson(s) ==
    CASE s = Concat(DropJsonWhiteEnd(DocOk)) -> JObj("response" :> JStr("hi"))
      [] s = Concat(DocStats) ->
            JObj("response" :> JStr("Mock response") @@ "stats" :> StatsValue)
      [] s = Concat(DocApiError) ->
            JObj("response" :> JStr("") @@ "error" :> QuotaDetail429)
      [] s = Concat(DocErrorNull) ->
            JObj("response" :> JStr("hi") @@ "error" :> JNull)
      [] s = Concat(DocErrorOnly) -> JObj("error" :> QuotaDetail)
      [] s = Concat(DocErrorString) ->
            JObj("response" :> JStr("hi") @@ "error" :> JStr("boom"))
      [] s = Concat(DocString) -> JStr("just a string")
      [] s = Concat(DocArray) -> JArr(<<JStr("hi")>>)
      [] s = Concat(DocArrayError) ->
            JArr(<<JStr(""), JNull,
                   JArr(<<JStr("quota"), JStr("Quota exceeded"), JNum(429)>>)>>)
      [] s = Concat(DocExtra) ->
            JObj("response" :> JStr("hi") @@ "extra" :> JNum(1))
      [] s = LineInit ->
            JObj("type" :> JStr("init") @@ "session_id" :> JStr("s1")
                 @@ "model" :> JStr("m") @@ "timestamp" :> JStr("t0"))
      [] s = LineMessage ->
            JObj("type" :> JStr("message") @@ "role" :> JStr("assistant")
                 @@ "content" :> JStr("Hel") @@ "delta" :> JBool(TRUE)
                 @@ "timestamp" :> JStr("t1"))
      [] s = LineResult ->
            JObj("type" :> JStr("result") @@ "status" :> JStr("success")
                 @@ "stats" :> JObj(<<>>) @@ "timestamp" :> JStr("t2"))
      [] s = LineError ->
            JObj("type" :> JStr("error") @@ "message" :> JStr("boom"))
      [] s = LineUnknownType ->
            JObj("type" :> JStr("debug") @@ "message" :> JStr("x"))
      [] s = LineMissingField ->
            JObj("type" :> JStr("init") @@ "model" :> JStr("m"))
      [] OTHER -> SyntaxError

\* serde_json::from_slice / from_str up to the value: white space around the
\* document is skipped, anything else around it is a syntax error.
from_slice(us) == ParseJson(Concat(DropJsonWhiteEnd(SkipJsonWhite(us))))

\* ----------------------------------------------- the derived deserializers

I32Max == 2147483647

Ok(v) == [tag |-> "Ok", val |-> v]

DecodeErr == [tag |-> "Err"]

\* A derived struct visitor reads a JSON object by field name (visit_map) or a
\* JSON array by position (visit_seq); an array longer than the field list is
\* an error (trailing elements).
StructFields(v, names) ==
    IF v.t = "obj" THEN [ok |-> TRUE, seq |-> FALSE, f |-> v.o]
    ELSE IF v.t = "arr" /\ Len(v.a) <= Len(names)
    THEN [ok |-> TRUE, seq |-> TRUE,
          f |-> [k \in {names[i] : i \in 1..Len(v.a)} |->
                   v.a[CHOOSE i \in 1..Len(v.a) : names[i] = k]]]
    ELSE [ok |-> FALSE, seq |-> FALSE, f |-> <<>>]

Present(f, k) == k \in DOMAIN f

\* An Option<T> field: absent or null is None.
Populated(f, k) == Present(f, k) /\ f[k] # JNull

IsStrField(f, k) == Present(f, k) /\ f[k].t = "str"

IsU64Field(f, k) == Present(f, k) /\ f[k].t = "num"

\* GeminiErrorDetail { type -> err_type: String, message: String, code: Option<i32> }
DeErrorDetail(v) ==
    LET sf == StructFields(v, <<"type", "message", "code">>)
        f  == sf.f
    IN  IF /\ sf.ok
           /\ IsStrField(f, "type")
           /\ IsStrField(f, "message")
           /\ IF Present(f, "code")
              THEN f["code"] = JNull \/ (f["code"].t = "num" /\ f["code"].n <= I32Max)
              ELSE ~sf.seq
        THEN Ok([err_type |-> f["type"].s, message |-> f["message"].s,
                 code |-> IF Populated(f, "code") THEN Some(f["code"].n) ELSE None])
        ELSE DecodeErr

\* ToolStats, camelCase: three u64 fields.
ToolStatsOk(v) ==
    LET sf == StructFields(v, <<"totalCalls", "totalSuccess", "totalFail">>)
    IN  sf.ok /\ \A k \in {"totalCalls", "totalSuccess", "totalFail"} : IsU64Field(sf.f, k)

\* FileStats, camelCase: two u64 fields.
FileStatsOk(v) ==
    LET sf == StructFields(v, <<"totalLinesAdded", "totalLinesRemoved">>)
    IN  sf.ok /\ \A k \in {"totalLinesAdded", "totalLinesRemoved"} : IsU64Field(sf.f, k)

\* ModelStats { api: HashMap<String, Value>, tokens: HashMap<String, u64> }
ModelStatsOk(v) ==
    LET sf == StructFields(v, <<"api", "tokens">>)
        f  == sf.f
    IN  /\ sf.ok
        /\ Present(f, "api") /\ f["api"].t = "obj"
        /\ Present(f, "tokens") /\ f["tokens"].t = "obj"
        /\ \A k \in DOMAIN f["tokens"].o : f["tokens"].o[k].t = "num"

\* GeminiStats { models: HashMap<String, ModelStats>, tools, files }
GeminiStatsOk(v) ==
    LET sf == StructFields(v, <<"models", "tools", "files">>)
        f  == sf.f
    IN  /\ sf.ok
        /\ Present(f, "models") /\ f["models"].t = "obj"
        /\ \A k \in DOMAIN f["models"].o : ModelStatsOk(f["models"].o[k])
        /\ Present(f, "tools") /\ ToolStatsOk(f["tools"])
        /\ Present(f, "files") /\ FileStatsOk(f["files"])

\* GeminiJsonOutput { response: String, #[serde(default)] stats: Option<..>,
\*                    #[serde(default)] error: Option<GeminiErrorDetail> }
DeGeminiJsonOutput(v) ==
    LET sf == StructFields(v, <<"response", "stats", "error">>)
        f  == sf.f
    IN  IF /\ sf.ok
           /\ IsStrField(f, "response")
           /\ Populated(f, "stats") => GeminiStatsOk(f["stats"])
           /\ Populated(f, "error") => DeErrorDetail(f["error"]).tag = "Ok"
        THEN Ok([response |-> f["response"].s,
                 stats |-> IF Populated(f, "stats") THEN Some(f["stats"]) ELSE None,
                 error |-> IF Populated(f, "error")
                           THEN Some(DeErrorDetail(f["error"]).val) ELSE None])
        ELSE DecodeErr

\* StreamEvent: #[serde(tag = "type", rename_all = "snake_case")]
EventTags == {"init", "message", "tool_use", "tool_result", "result", "error"}

\* The fields of each variant, in declaration order.
VariantFields(tag) ==
    CASE tag = "init"        -> <<"session_id", "model", "timestamp">>
      [] tag = "message"     -> <<"role", "content", "delta", "timestamp">>
      [] tag = "tool_use"    -> <<"tool_name", "parameters", "timestamp">>
      [] tag = "tool_result" -> <<"tool_id", "status", "output", "timestamp">>
      [] tag = "result"      -> <<"status", "stats", "timestamp">>
      [] tag = "error"       -> <<"message">>

\* Whether field k of a variant holds a value of its Rust type: delta is
\* Option<bool>, parameters and stats are serde_json::Value, the rest String.
FieldOk(f, k, seq) ==
    CASE k = "delta" ->
           IF Present(f, k) THEN f[k] = JNull \/ f[k].t = "bool" ELSE ~seq
      [] k \in {"parameters", "stats"} -> Present(f, k)
      [] OTHER -> IsStrField(f, k)

\* The event built from a tag and its checked fields.
EventOf(tag, f) ==
    [type |-> tag,
     fields |-> [k \in {VariantFields(tag)[i] : i \in 1..Len(VariantFields(tag))} |->
                   IF Present(f, k) THEN f[k] ELSE JNull]]

\* serde's internally tagged enum: the tag is the "type" entry of an object
\* (or the first element of an array), the other entries are the variant's
\* fields; an unknown tag or a missing or ill-typed field is an error.
DeStreamEvent(v) ==
    IF v.t = "obj"
    THEN IF IsStrField(v.o, "type") /\ v.o["type"].s \in EventTags
            /\ \A i \in 1..Len(VariantFields(v.o["type"].s)) :
                  FieldOk(v.o, VariantFields(v.o["type"].s)[i], FALSE)
         THEN Ok(EventOf(v.o["type"].s, v.o))
         ELSE DecodeErr
    ELSE IF v.t = "arr" /\ Len(v.a) >= 1 /\ v.a[1].t = "str" /\ v.a[1].s \in EventTags
    THEN LET tag == v.a[1].s
             sf  == StructFields(JArr(Tail(v.a)), VariantFields(tag))
         IN  IF sf.ok /\ \A i \in 1..Len(VariantFields(tag)) :
                            FieldOk(sf.f, VariantFields(tag)[i], TRUE)
             THEN Ok(EventOf(tag, sf.f))
             ELSE DecodeErr
    ELSE DecodeErr

\* ------------------------------------------------------------------ errors

\* GeminiError: the variant, its payload, and the step that produced it.
Err(kind, msg, src) == [tag |-> "Err", kind |-> kind, msg |-> msg, src |-> src]

\* The Display text of a GeminiError (the #[error(...)] attributes).
to_string(e) ==
    CASE e.kind = "CliLaunchFailed" -> "Failed to start Gemini CLI. Is it installed?"
      [] e.kind = "JsonParseFailed" -> "Failed to parse JSON output"
      [] e.kind = "ApiError"        -> "Gemini API Error: " \o e.msg
      [] e.kind = "RuntimeError"    -> "Runtime Error: " \o e.msg

\* ExitStatus::success(): the process exited, and with code 0.
success(status) == status = "exit 0"

\* ------------------------------------------------------------------- state

VARIABLES
    mode,           \* the execution method called: "text", "json" or "stream"
    input_data,     \* Gemini.input_data: Option<String>, a sequence of units
    input_files,    \* Gemini.input_files: Vec<PathBuf>
    options,        \* the other fields of Gemini: [bin_path, prompt, model,
                    \* include_dirs, yolo, debug]
    env,            \* the OS: [cap, spawnOk, ioFault]
    plan,           \* what the subprocess does: [out, err, code, reads]
    command,        \* the Command built for the spawn: None, or [program, args]
    callerPc,       \* "call", "wait" (in wait_with_output), "returned"; under
                    \* stream(): "spawned" (stream() has not returned yet),
                    \* "stream", "failed" (the Err item was yielded, the
                    \* generator is still alive), "unread" (a read failed,
                    \* the reader is not dropped yet), "ended", "dropped"
    result,         \* what the execution method returned (None before it returns)
    items,          \* the items the event stream has yielded so far
    feeder,         \* the write_stdin task: [pc, idx, buf]
    stdin,          \* the three pipes: [buf, w, r], w and r the ends still open
    stdout,
    stderr,
    child,          \* the subprocess: [pc, op, outPos, errPos, nread, eof, status]
    coll,           \* wait_with_output's buffers: [out, err, outEOF, errEOF]
    stdinWritten,   \* history: every unit the feeder wrote to stdin
    stdoutWritten,  \* history: every unit the subprocess wrote to stdout
    stderrWritten   \* history: every unit the subprocess wrote to stderr

vars == <<mode, input_data, input_files, options, env, plan, command, callerPc,
          result, items, feeder, stdin, stdout, stderr, child, coll, stdinWritten,
          stdoutWritten, stderrWritten>>

request == <<mode, input_data, input_files, options, env, plan>>

ClosedPipe == [buf |-> <<>>, w |-> FALSE, r |-> FALSE]

OpenPipe == [buf |-> <<>>, w |-> TRUE, r |-> TRUE]

HasSpace(p) == Len(p.buf) < env.cap

WritePcs == {"text", "textnl", "file", "filenl"}

Min(a, b) == IF a < b THEN a ELSE b

\* ------------------------------------------------------------ Stdin Feeder

FeederAt(pc, idx, buf) == [pc |-> pc, idx |-> idx, buf |-> buf]

\* for path in files { ... }: the next file, or Ok(()) after the last one.
EnterLoop(idx) ==
    IF idx <= Len(input_files) THEN FeederAt("read", idx, <<>>)
    ELSE FeederAt("ok", idx, <<>>)

\* if let Some(t) = text { write_all(t); write_all("\n") }; write_all of an
\* empty buffer returns at once.
EnterText ==
    IF IsSome(input_data)
    THEN IF Unwrap(input_data) = <<>> THEN FeederAt("textnl", 0, <<NL>>)
         ELSE FeederAt("text", 0, Unwrap(input_data))
    ELSE EnterLoop(1)

\* stdin.write_all(&content) after a successful read of file idx.
EnterFile(idx, content) ==
    IF content = <<>> THEN FeederAt("filenl", idx, <<NL>>)
    ELSE FeederAt("file", idx, content)

\* A variant of AfterWrite that forgets the separator after a file.
AfterWriteNoFileSeparator(f) ==
    CASE f.pc = "text"   -> FeederAt("textnl", 0, <<NL>>)
      [] f.pc = "textnl" -> EnterLoop(1)
      [] f.pc = "file"   -> EnterLoop(f.idx + 1)
      [] f.pc = "filenl" -> EnterLoop(f.idx + 1)

\* Where write_stdin continues once the write_all at f.pc has written all.
AfterWrite(f) ==
    CASE f.pc = "text"   -> FeederAt("textnl", 0, <<NL>>)
      [] f.pc = "textnl" -> EnterLoop(1)
      [] f.pc = "file"   -> FeederAt("filenl", f.idx, <<NL>>)
      [] f.pc = "filenl" -> EnterLoop(f.idx + 1)

\* The `?` after each await of write_stdin: the first io::Error returns it.
OnIoError(f) == FeederAt("err", f.idx, <<>>)

\* A variant of FeederTo that keeps the writer open when write_stdin returns
\* an error.
FeederToLeakingOnError(f, buf) ==
    /\ feeder' = f
    /\ stdin' = [stdin EXCEPT !.buf = buf, !.w = f.pc # "ok"]

\* The feeder moves to f with stdin holding buf; returning from write_stdin
\* (Ok or Err) drops the ChildStdin, which closes the write end.
FeederTo(f, buf) ==
    /\ feeder' = f
    /\ stdin' = [stdin EXCEPT !.buf = buf, !.w = f.pc \notin {"ok", "err"}]

\* The spawned task is polled for the first time.
FeederStart ==
    /\ feeder.pc = "spawned"
    /\ FeederTo(EnterText, stdin.buf)
    /\ UNCHANGED <<request, command, callerPc, result, items, stdout, stderr, child, coll,
                   stdinWritten, stdoutWritten, stderrWritten>>

\* One write(2) of write_all: as many units as the pipe has room for.
FeederWrite ==
    /\ feeder.pc \in WritePcs
    /\ stdin.r
    /\ HasSpace(stdin)
    /\ LET n    == Min(env.cap - Len(stdin.buf), Len(feeder.buf))
           sent == SubSeq(feeder.buf, 1, n)
           rest == SubSeq(feeder.buf, n + 1, Len(feeder.buf))
       IN  /\ stdinWritten' = stdinWritten \o sent
           /\ IF rest = <<>> THEN FeederTo(AfterWrite(feeder), stdin.buf \o sent)
              ELSE FeederTo([feeder EXCEPT !.buf = rest], stdin.buf \o sent)
    /\ UNCHANGED <<request, command, callerPc, result, items, stdout, stderr, child, coll,
                   stdoutWritten, stderrWritten>>

\* A write to a pipe whose read end is closed fails (EPIPE).
FeederBrokenPipe ==
    /\ feeder.pc \in WritePcs
    /\ ~stdin.r
    /\ FeederTo(OnIoError(feeder), stdin.buf)
    /\ UNCHANGED <<request, command, callerPc, result, items, stdout, stderr, child, coll,
                   stdinWritten, stdoutWritten, stderrWritten>>

\* tokio::fs::read(path).await?
FeederReadFile ==
    /\ feeder.pc = "read"
    /\ IF input_files[feeder.idx] \in Readable
       THEN FeederTo(EnterFile(feeder.idx, FileContent(input_files[feeder.idx])),
                     stdin.buf)
       ELSE FeederTo(OnIoError(feeder), stdin.buf)
    /\ UNCHANGED <<request, command, callerPc, result, items, stdout, stderr, child, coll,
                   stdinWritten, stdoutWritten, stderrWritten>>

FeederStep == FeederStart \/ FeederWrite \/ FeederBrokenPipe \/ FeederReadFile

\* ---------------------------------------------------------- the subprocess

\* The subprocess is the external program: it reads stdin and writes its
\* planned stdout and stderr in any order, one blocking call at a time, and
\* exits when nothing is left to do.
WantsRead ==
    /\ ~child.eof
    /\ \/ plan.reads = "eof"
       \/ plan.reads = "one" /\ child.nread < 1

ChildWants ==
    (IF WantsRead THEN {"read"} ELSE {})
    \cup (IF child.outPos < Len(plan.out) THEN {"out"} ELSE {})
    \cup (IF child.errPos < Len(plan.err) THEN {"err"} ELSE {})

\* The process is gone: its ends of the three pipes are closed.
ChildGone(status) ==
    /\ child' = [child EXCEPT !.pc = "exited", !.op = "idle", !.status = status]
    /\ stdin' = [stdin EXCEPT !.r = FALSE]
    /\ stdout' = [stdout EXCEPT !.w = FALSE]
    /\ stderr' = [stderr EXCEPT !.w = FALSE]

\* The subprocess enters its next blocking call.
ChildChoose ==
    /\ child.pc = "running" /\ child.op = "idle"
    /\ \E op \in ChildWants : child' = [child EXCEPT !.op = op]
    /\ UNCHANGED <<request, command, callerPc, result, items, feeder, stdin, stdout, stderr,
                   coll, stdinWritten, stdoutWritten, stderrWritten>>

\* read(0): one unit, or end of input once the write end is closed.
ChildRead ==
    /\ child.pc = "running" /\ child.op = "read"
    /\ \/ /\ stdin.buf # <<>>
          /\ stdin' = [stdin EXCEPT !.buf = Tail(stdin.buf)]
          /\ child' = [child EXCEPT !.op = "idle", !.nread = child.nread + 1]
       \/ /\ stdin.buf = <<>> /\ ~stdin.w
          /\ child' = [child EXCEPT !.op = "idle", !.eof = TRUE]
          /\ UNCHANGED stdin
    /\ UNCHANGED <<request, command, callerPc, result, items, feeder, stdout, stderr, coll,
                   stdinWritten, stdoutWritten, stderrWritten>>

\* write(1): the next unit of stdout, when the pipe has room.
ChildWriteOut ==
    /\ child.pc = "running" /\ child.op = "out"
    /\ stdout.r /\ HasSpace(stdout)
    /\ stdout' = [stdout EXCEPT !.buf = Append(stdout.buf, plan.out[child.outPos + 1])]
    /\ stdoutWritten' = Append(stdoutWritten, plan.out[child.outPos + 1])
    /\ child' = [child EXCEPT !.op = "idle", !.outPos = child.outPos + 1]
    /\ UNCHANGED <<request, command, callerPc, result, items, feeder, stdin, stderr, coll,
                   stdinWritten, stderrWritten>>

\* write(2): the next unit of stderr, when the pipe has room.
ChildWriteErr ==
    /\ child.pc = "running" /\ child.op = "err"
    /\ stderr.r /\ HasSpace(stderr)
    /\ stderr' = [stderr EXCEPT !.buf = Append(stderr.buf, plan.err[child.errPos + 1])]
    /\ stderrWritten' = Append(stderrWritten, plan.err[child.errPos + 1])
    /\ child' = [child EXCEPT !.op = "idle", !.errPos = child.errPos + 1]
    /\ UNCHANGED <<request, command, callerPc, result, items, feeder, stdin, stdout, coll,
                   stdinWritten, stdoutWritten>>

\* A write to a pipe whose read end is closed: SIGPIPE kills the subprocess
\* (std resets SIGPIPE to its default in the child), or, in a program that
\* ignores the signal, the write fails with EPIPE and the unit is lost.
ChildBrokenPipe ==
    /\ child.pc = "running"
    /\ \/ child.op = "out" /\ ~stdout.r
       \/ child.op = "err" /\ ~stderr.r
    /\ \/ /\ ChildGone("SIGPIPE")
       \/ /\ child' = [child EXCEPT !.op = "idle",
                          !.outPos = IF child.op = "out" THEN @ + 1 ELSE @,
                          !.errPos = IF child.op = "err" THEN @ + 1 ELSE @]
          /\ UNCHANGED <<stdin, stdout, stderr>>
    /\ UNCHANGED <<request, command, callerPc, result, items, feeder, coll,
                   stdinWritten, stdoutWritten, stderrWritten>>

\* Nothing left to read or write: exit with the planned status.
ChildExit ==
    /\ child.pc = "running" /\ child.op = "idle"
    /\ ChildWants = {}
    /\ ChildGone(plan.code)
    /\ UNCHANGED <<request, command, callerPc, result, items, feeder, coll,
                   stdinWritten, stdoutWritten, stderrWritten>>

ChildStep ==
    ChildChoose \/ ChildRead \/ ChildWriteOut \/ ChildWriteErr \/ ChildBrokenPipe
    \/ ChildExit

\* ------------------------------------------------------ Command Assembler

\* Gemini::new(prompt): the fields the builder methods have not touched.
new(prompt) ==
    [bin_path |-> "gemini", prompt |-> prompt, model |-> None, include_dirs |-> <<>>,
     yolo |-> FALSE, debug |-> FALSE]

\* Gemini::bin_path(path)
bin_path(self, path) == [self EXCEPT !.bin_path = path]

\* Gemini::model(model)
model(self, m) == [self EXCEPT !.model = Some(m)]

\* Gemini::include(dir): include_dirs.push(dir)
include(self, dir) == [self EXCEPT !.include_dirs = Append(@, dir)]

\* Gemini::yolo()
yolo(self) == [self EXCEPT !.yolo = TRUE]

\* Gemini::debug()
debug(self) == [self EXCEPT !.debug = TRUE]

\* [String]::join(sep)
RECURSIVE join(_, _)
join(strs, sep) ==
    IF strs = <<>> THEN ""
    ELSE IF Len(strs) = 1 THEN Head(strs)
    ELSE Head(strs) \o sep \o join(Tail(strs), sep)

\* The format each execution method passes to build_command.
format_of(m) ==
    CASE m = "text"   -> "text"
      [] m = "json"   -> "json"
      [] m = "stream" -> "stream-json"

\* A variant of build_command that puts --debug before --yolo.
build_command_debug_first(self, format) ==
    [program |-> self.bin_path,
     args |-> <<"--output-format", format>>
              \o (IF IsSome(self.model) THEN <<"--model", Unwrap(self.model)>> ELSE <<>>)
              \o (IF self.debug THEN <<"--debug">> ELSE <<>>)
              \o (IF self.yolo THEN <<"--yolo">> ELSE <<>>)
              \o (IF self.include_dirs # <<>>
                  THEN <<"--include-directories", join(self.include_dirs, ",")>>
                  ELSE <<>>)
              \o <<self.prompt>>]

\* build_command: Command::new(bin_path) and the cmd.arg calls in order.
build_command(self, format) ==
    [program |-> self.bin_path,
     args |-> <<"--output-format", format>>
              \o (IF IsSome(self.model) THEN <<"--model", Unwrap(self.model)>> ELSE <<>>)
              \o (IF self.yolo THEN <<"--yolo">> ELSE <<>>)
              \o (IF self.debug THEN <<"--debug">> ELSE <<>>)
              \o (IF self.include_dirs # <<>>
                  THEN <<"--include-directories", join(self.include_dirs, ",")>>
                  ELSE <<>>)
              \o <<self.prompt>>]

\* ------------------------------------------------- spawn (both modes)

\* A variant of feeder_spawned: write_stdin awaited in line before the output
\* is read.
feeder_awaited_inline == FALSE

\* tokio::spawn(async move { let _ = Self::write_stdin(..).await; }): the
\* feeder is a task of its own, so the caller goes on to read the output
\* without waiting for it.
feeder_spawned == TRUE

\* Whether the caller's side (collector or stream reader) may run.
ConsumerRuns == feeder_spawned \/ feeder.pc \in {"ok", "err"}

\* A variant of PrimaryResult: the feeder is joined and its error preferred
\* when the primary path reports success.
PreferFeederError(primary, feederPc) ==
    IF primary.tag = "Ok" /\ feederPc = "err"
    THEN Err("CliLaunchFailed", "", "feeder") ELSE primary

\* `let _ = ...` and the dropped JoinHandle: the feeder's io::Result reaches
\* nobody, the primary result is returned as it is.
PrimaryResult(primary, feederPc) == primary

\* build_command, then cmd.spawn().map_err(GeminiError::CliLaunchFailed)?: the
\* spawn is attempted once.
SpawnFails ==
    /\ callerPc = "call"
    /\ ~env.spawnOk
    /\ callerPc' = "returned"
    /\ command' = Some(build_command(options, format_of(mode)))
    /\ result' = Some(Err("CliLaunchFailed", "", "spawn"))
    /\ UNCHANGED <<request, items, feeder, stdin, stdout, stderr, child, coll,
                   stdinWritten, stdoutWritten, stderrWritten>>

\* build_command, then the spawn succeeds: the process starts with three
\* pipes, all of them open at both ends; stdin is taken and handed to the
\* spawned feeder.  execute_process goes on to wait_with_output; stream() still
\* has to take stdout, build the stream and return.
Spawn ==
    /\ callerPc = "call"
    /\ env.spawnOk
    /\ stdin' = OpenPipe
    /\ stdout' = OpenPipe
    /\ stderr' = OpenPipe
    /\ child' = [child EXCEPT !.pc = "running"]
    /\ feeder' = FeederAt("spawned", 0, <<>>)
    /\ callerPc' = IF mode = "stream" THEN "spawned" ELSE "wait"
    /\ command' = Some(build_command(options, format_of(mode)))
    /\ UNCHANGED <<request, result, items, coll, stdinWritten, stdoutWritten,
                   stderrWritten>>

\* stream() returns Ok(stream): `child` goes out of scope, and with
\* it the ChildStderr it still holds, so the read end of stderr closes and
\* what the pipe holds is discarded.  The subprocess has been running since
\* the spawn, and whatever it wrote to stderr before this went through.
StreamReturn ==
    /\ callerPc = "spawned"
    /\ callerPc' = "stream"
    /\ result' = Some(Ok("Stream"))
    /\ stderr' = [stderr EXCEPT !.buf = <<>>, !.r = FALSE]
    /\ UNCHANGED <<request, command, items, feeder, stdin, stdout, child, coll,
                   stdinWritten, stdoutWritten, stderrWritten>>

\* ------------------------------------------- Output Collector (buffered mode)

\* A variant of execute_process that reports stdout in the error.
execute_process_reporting_stdout(status, out, err) ==
    IF ~success(status)
    THEN Err("RuntimeError", Concat(from_utf8_lossy(out)), "exit status")
    ELSE Ok(out)

\* A variant of execute_process that does not look at the exit status.
execute_process_ignoring_status(status, out, err) == Ok(out)

\* if !output.status.success() { Err(RuntimeError(lossy(stderr))) } else { Ok(stdout) }
execute_process(status, out, err) ==
    IF ~success(status)
    THEN Err("RuntimeError", Concat(from_utf8_lossy(err)), "exit status")
    ELSE Ok(out)

\* text(): Ok(String::from_utf8_lossy(&output).trim().to_string())
text(output) ==
    IF output.tag = "Err" THEN output
    ELSE Ok(Concat(trim(from_utf8_lossy(output.val))))

\* A variant of json that does not look at the error field.
json_ignoring_error(output) ==
    IF output.tag = "Err" THEN output
    ELSE LET parsed == DeGeminiJsonOutput(from_slice(output.val))
         IN  IF parsed.tag = "Err" THEN Err("JsonParseFailed", "", "from_slice")
             ELSE Ok(parsed.val)

\* json(): from_slice(..).map_err(JsonParseFailed)?, then the error field.
json(output) ==
    IF output.tag = "Err" THEN output
    ELSE LET parsed == DeGeminiJsonOutput(from_slice(output.val))
         IN  IF parsed.tag = "Err" THEN Err("JsonParseFailed", "", "from_slice")
             ELSE IF IsSome(parsed.val.error)
             THEN Err("ApiError", Unwrap(parsed.val.error).message, "error field")
             ELSE Ok(parsed.val)

\* The caller's side leaves wait_with_output: both read ends are dropped.
LeaveWait(r) ==
    /\ callerPc' = "returned"
    /\ result' = Some(r)
    /\ stdout' = [stdout EXCEPT !.r = FALSE]
    /\ stderr' = [stderr EXCEPT !.r = FALSE]

\* read_to_end(stdout): what is in the pipe, or end of file.
CollectStdout ==
    /\ callerPc = "wait" /\ ConsumerRuns
    /\ ~coll.outEOF
    /\ \/ /\ stdout.buf # <<>>
          /\ coll' = [coll EXCEPT !.out = @ \o stdout.buf]
          /\ stdout' = [stdout EXCEPT !.buf = <<>>]
       \/ /\ stdout.buf = <<>> /\ ~stdout.w
          /\ coll' = [coll EXCEPT !.outEOF = TRUE]
          /\ UNCHANGED stdout
    /\ UNCHANGED <<request, command, callerPc, result, items, feeder, stdin, stderr, child,
                   stdinWritten, stdoutWritten, stderrWritten>>

\* read_to_end(stderr), concurrently with stdout's (try_join3).
CollectStderr ==
    /\ callerPc = "wait" /\ ConsumerRuns
    /\ ~coll.errEOF
    /\ \/ /\ stderr.buf # <<>>
          /\ coll' = [coll EXCEPT !.err = @ \o stderr.buf]
          /\ stderr' = [stderr EXCEPT !.buf = <<>>]
       \/ /\ stderr.buf = <<>> /\ ~stderr.w
          /\ coll' = [coll EXCEPT !.errEOF = TRUE]
          /\ UNCHANGED stderr
    /\ UNCHANGED <<request, command, callerPc, result, items, feeder, stdin, stdout, child,
                   stdinWritten, stdoutWritten, stderrWritten>>

\* wait_with_output returns Ok(output): the process has exited and both pipes
\* are at end of file; execute_process and text()/json() run to their result.
WaitReturn ==
    /\ callerPc = "wait" /\ ConsumerRuns
    /\ child.pc = "exited" /\ coll.outEOF /\ coll.errEOF
    /\ LET output == execute_process(child.status, coll.out, coll.err)
       IN  LeaveWait(PrimaryResult(IF mode = "text" THEN text(output) ELSE json(output),
                                   feeder.pc))
    /\ UNCHANGED <<request, command, items, feeder, stdin, child, coll, stdinWritten,
                   stdoutWritten, stderrWritten>>

\* wait_with_output returns Err(io::Error) (a failed read or wait):
\* .map_err(GeminiError::CliLaunchFailed)?
WaitIoError ==
    /\ callerPc = "wait" /\ ConsumerRuns
    /\ env.ioFault
    /\ LeaveWait(Err("CliLaunchFailed", "", "wait_with_output"))
    /\ UNCHANGED <<request, command, items, feeder, stdin, child, coll, stdinWritten,
                   stdoutWritten, stderrWritten>>

CollectorStep == CollectStdout \/ CollectStderr \/ WaitReturn \/ WaitIoError

\* ------------------------------------------ Event Stream Reader (streaming)

\* A variant of is_blank that skips nothing.
is_blank_never(line) == FALSE

\* A variant of is_blank that also skips a JSON object of an unknown type.
is_blank_or_unknown_type(line) ==
    \/ line \in WhiteUnits
    \/ /\ ParseJson(line).t = "obj"
       /\ IsStrField(ParseJson(line).o, "type")
       /\ ParseJson(line).o["type"].s \notin EventTags

\* line.trim().is_empty()
is_blank(line) == line \in WhiteUnits

\* The stream is over (poll_next returns None): the generator completes and
\* its locals are dropped, the reader among them, which closes the read end
\* of stdout with whatever the pipe holds.  Nothing is read in this step.
StreamEnds ==
    /\ callerPc' = "ended"
    /\ stdout' = [stdout EXCEPT !.buf = <<>>, !.r = FALSE]

\* One turn of `while let Ok(Some(line)) = lines.next_line().await`.
StreamNextLine ==
    /\ callerPc = "stream" /\ ConsumerRuns
    /\ stdout.buf # <<>>
    /\ LET line == Head(stdout.buf)
           ev   == DeStreamEvent(ParseJson(line))
       IN  IF line = InvalidUtf8
           THEN \* next_line() is Err(InvalidData): the bytes were read, so
                \* the pipe has room again; the pattern does not match and
                \* the loop is left, the reader still open
                /\ stdout' = [stdout EXCEPT !.buf = Tail(@)]
                /\ callerPc' = "unread"
                /\ UNCHANGED items
           ELSE IF is_blank(line)
           THEN \* continue
                /\ stdout' = [stdout EXCEPT !.buf = Tail(@)]
                /\ UNCHANGED <<callerPc, items>>
           ELSE IF ev.tag = "Err"
           THEN \* .map_err(JsonParseFailed)?: the error is yielded, and the
                \* generator stays suspended (the reader open) until it is
                \* polled again or dropped
                /\ items' = Append(items, Err("JsonParseFailed", "", "from_str"))
                /\ stdout' = [stdout EXCEPT !.buf = Tail(@)]
                /\ callerPc' = "failed"
           ELSE \* yield event
                /\ items' = Append(items, ev)
                /\ stdout' = [stdout EXCEPT !.buf = Tail(@)]
                /\ UNCHANGED callerPc
    /\ UNCHANGED <<request, command, result, feeder, stdin, stderr, child, coll,
                   stdinWritten, stdoutWritten, stderrWritten>>

\* next_line() is Ok(None): the subprocess closed stdout.
StreamEof ==
    /\ callerPc = "stream" /\ ConsumerRuns
    /\ stdout.buf = <<>> /\ ~stdout.w
    /\ StreamEnds
    /\ UNCHANGED <<request, command, result, items, feeder, stdin, stderr, child, coll,
                   stdinWritten, stdoutWritten, stderrWritten>>

\* The poll after the Err item: the generator returns, poll_next is None and
\* the reader is dropped with whatever the pipe holds.
StreamAfterError ==
    /\ callerPc = "failed" /\ ConsumerRuns
    /\ StreamEnds
    /\ UNCHANGED <<request, command, result, items, feeder, stdin, stderr, child, coll,
                   stdinWritten, stdoutWritten, stderrWritten>>

\* After the read that failed, in the same poll: the generator runs off the
\* end of the block and completes.  The subprocess may have written into the
\* room the read made before the reader is dropped here.
StreamAfterReadFailure ==
    /\ callerPc = "unread" /\ ConsumerRuns
    /\ StreamEnds
    /\ UNCHANGED <<request, command, result, items, feeder, stdin, stderr, child, coll,
                   stdinWritten, stdoutWritten, stderrWritten>>

StreamStep ==
    StreamNextLine \/ StreamEof \/ StreamAfterError \/ StreamAfterReadFailure

\* A variant of DropReader in which dropping the stream also kills the
\* subprocess.
DropReaderAndKill ==
    /\ stdout' = [stdout EXCEPT !.buf = <<>>, !.r = FALSE, !.w = FALSE]
    /\ child' = [child EXCEPT !.pc = "exited", !.op = "idle", !.status = "SIGKILL"]
    /\ stdin' = [stdin EXCEPT !.r = FALSE]
    /\ stderr' = [stderr EXCEPT !.w = FALSE]
    /\ UNCHANGED feeder

\* What the generator of try_stream! owns is `reader` (the ChildStdout) alone:
\* dropping it closes the read end of stdout and discards what the pipe
\* holds.  The Child was dropped when stream() returned, without
\* kill_on_drop, and the feeder's JoinHandle was dropped at the spawn
\* (detached), so neither the subprocess nor the feeder is touched.
DropReader ==
    /\ stdout' = [stdout EXCEPT !.buf = <<>>, !.r = FALSE]
    /\ UNCHANGED <<child, stdin, stderr, feeder>>

\* The consumer drops the stream before it has ended.
StreamDrop ==
    /\ callerPc \in {"stream", "failed"}
    /\ callerPc' = "dropped"
    /\ DropReader
    /\ UNCHANGED <<request, command, result, items, coll, stdinWritten, stdoutWritten,
                   stderrWritten>>

\* ------------------------------------------------------------ the requests

Context == <<"c", "t", "x">>

InputDatas == {None, Some(<<>>), Some(Context)}

InputFiles ==
    { <<>>, <<"big.txt">>, <<"missing.txt">>, <<"a.txt", "big.txt">>,
      <<"big.txt", "a.txt">>, <<"empty.txt", "a.txt">>,
      <<"a.txt", "missing.txt", "big.txt">> }

Critical == <<"Critical ", "Failure", NL>>

Garbled == <<"warn", InvalidUtf8, "ing">>

StderrPlans == {<<>>, Critical, Garbled}

StdoutDocs ==
    { <<>>, DocPlain, DocText, DocOk, DocStats, DocApiError, DocErrorNull,
      DocErrorOnly, DocErrorString, DocTruncated, DocString, DocArray,
      DocArrayError, DocExtra }

StdoutLines ==
    { LineInit, LineMessage, LineResult, LineUnknownType, LineNotJson, "", "  ",
      InvalidUtf8 }

\* Every sequence of at most n lines.
RECURSIVE LineSeqs(_)
LineSeqs(n) ==
    IF n = 0 THEN {<<>>}
    ELSE LineSeqs(n - 1)
         \cup {Append(ls, l) : ls \in {x \in LineSeqs(n - 1) : Len(x) = n - 1},
                               l \in StdoutLines}

Env(cap, spawnOk, ioFault) == [cap |-> cap, spawnOk |-> spawnOk, ioFault |-> ioFault]

Plan(out, err, code, reads) == [out |-> out, err |-> err, code |-> code, reads |-> reads]

\* Buffered mode: every input payload, fed to a subprocess that reads all of
\* it, one unit of it, or none.
FeedRequests ==
    [mode : {"text"}, options : {new("hello")},
     input_data : InputDatas, input_files : InputFiles,
     env : {Env(c, TRUE, FALSE) : c \in 1..MaxPipeCap},
     plan : {Plan(<<>>, <<>>, "exit 0", r) : r \in {"eof", "one", "none"}}]

\* Buffered mode under input and output larger than the pipes.
PipeRequests ==
    [mode : {"text"}, options : {new("hello")},
     input_data : {None, Some(Context)},
     input_files : {<<>>, <<"big.txt">>, <<"missing.txt">>},
     env : {Env(c, TRUE, FALSE) : c \in 1..MaxPipeCap},
     plan : {Plan(DocText, e, s, r) : e \in {<<>>, Critical},
                                      s \in {"exit 0", "exit 1"},
                                      r \in {"eof", "one", "none"}}]

\* Buffered mode when the environment fails: the spawn, or the collection of
\* the output.
FaultRequests ==
    [mode : {"text", "json"}, options : {new("hello")},
     input_data : {None, Some(Context)},
     input_files : {<<>>},
     env : {Env(MaxPipeCap, FALSE, FALSE), Env(MaxPipeCap, TRUE, TRUE)},
     plan : {Plan(d, e, s, "eof") : d \in {DocOk, DocPlain}, e \in {<<>>, Critical},
                                    s \in {"exit 0", "exit 1"}}]

\* Buffered mode over every document and exit status, with and without a
\* feeder that fails.
DocumentRequests ==
    [mode : {"text", "json"}, options : {new("hello")},
     input_data : {None},
     input_files : {<<>>, <<"missing.txt">>},
     env : {Env(MaxPipeCap, TRUE, FALSE)},
     plan : {Plan(d, e, s, "eof") : d \in StdoutDocs, e \in StderrPlans,
                                    s \in {"exit 0", "exit 1"}}]

\* Streaming mode over every sequence of lines, through the smallest pipe
\* and through one that holds every line of the output, as an OS pipe holds a
\* few short lines.
LineRequests ==
    [mode : {"stream"}, options : {new("hello")},
     input_data : {None}, input_files : {<<>>},
     env : {Env(c, TRUE, FALSE) : c \in {1, MaxLines}},
     plan : {Plan(ls, <<>>, "exit 0", "eof") : ls \in LineSeqs(MaxLines)}]

\* The event lines of a whole answer, a blank line among them.
EventLines == <<LineInit, "", LineMessage, LineResult>>

\* The pipe capacities of the streaming requests: the small ones, and one
\* that holds the whole of what the subprocess writes to stdout and the whole
\* of what it writes to stderr, as an OS pipe holds a few short lines: the
\* subprocess can then write everything and exit before anything is read.
StreamCaps == (1..MaxPipeCap) \cup {Len(EventLines)}

\* Streaming mode under feeder failures, stderr output and exit statuses.
StreamRequests ==
    [mode : {"stream"}, options : {new("hello")},
     input_data : {None, Some(Context)},
     input_files : {<<>>, <<"missing.txt">>, <<"a.txt">>},
     env : {Env(c, ok, FALSE) : c \in StreamCaps, ok \in BOOLEAN},
     plan : {Plan(ls, e, s, r) :
                ls \in { EventLines,
                         <<LineInit, LineNotJson, LineMessage>>,
                         <<LineMessage, InvalidUtf8, LineResult>> },
                e \in {<<>>, Critical}, s \in {"exit 0", "exit 1"},
                r \in {"eof", "none"}}]

\* The streaming requests whose every fair run is followed to its end: input
\* larger than the stdin pipe or a feeder that fails, lines that decode, a
\* line that does not and a line that cannot be read, output larger than the pipes and output that fits in
\* them; and, for a subprocess that reads nothing, the same with stderr
\* output.
FairStreamRequests ==
    [mode : {"stream"}, options : {new("hello")},
     input_data : {None, Some(Context)},
     input_files : {<<>>, <<"missing.txt">>},
     env : {Env(c, TRUE, FALSE) : c \in StreamCaps}
           \cup {Env(MaxPipeCap, FALSE, FALSE)},
     plan : {Plan(ls, <<>>, "exit 1", r) :
                ls \in {EventLines, <<LineInit, LineNotJson, LineMessage>>,
                        <<LineMessage, InvalidUtf8, LineResult>>},
                r \in {"eof", "none"}}]
    \cup
    [mode : {"stream"}, options : {new("hello")},
     input_data : {None, Some(Context)},
     input_files : {<<>>},
     env : {Env(c, TRUE, FALSE) : c \in StreamCaps},
     plan : {Plan(ls, Critical, "exit 1", "none") :
                ls \in {EventLines, <<LineInit, LineNotJson, LineMessage>>}}]

Prompts == {"test", ""}

Models == {None, Some("my-model")}

IncludeDirs == {<<>>, <<"src">>, <<"src", "docs">>}

\* None: bin_path is not called and the default ("gemini") stays.
BinPaths == {None, Some("./mock")}

\* include called once for every directory, in order.
RECURSIVE includes(_, _)
includes(self, dirs) ==
    IF dirs = <<>> THEN self ELSE includes(include(self, Head(dirs)), Tail(dirs))

\* The builder chain Gemini::new(p).bin_path(b).model(m).include(..).yolo().debug(),
\* each call made or left out.
Built(p, b, m, d, y, g) ==
    LET s0 == new(p)
        s1 == IF IsSome(b) THEN bin_path(s0, Unwrap(b)) ELSE s0
        s2 == IF IsSome(m) THEN model(s1, Unwrap(m)) ELSE s1
        s3 == includes(s2, d)
        s4 == IF y THEN yolo(s3) ELSE s3
    IN  IF g THEN debug(s4) ELSE s4

\* Every configuration of the builder, in every mode, whether or not the
\* spawn succeeds.
CommandRequests ==
    [mode : {"text", "json", "stream"},
     options : {Built(p, b, m, d, y, g) :
                   p \in Prompts, b \in BinPaths, m \in Models, d \in IncludeDirs,
                   y \in BOOLEAN, g \in BOOLEAN},
     input_data : {None}, input_files : {<<>>},
     env : {Env(MaxPipeCap, ok, FALSE) : ok \in BOOLEAN},
     plan : {Plan(<<>>, <<>>, "exit 0", "none")}]

Requests ==
    FeedRequests \cup PipeRequests \cup FaultRequests \cup DocumentRequests
    \cup LineRequests \cup StreamRequests \cup CommandRequests

\* -------------------------------------------------------- the specification

InitOf(R) ==
    /\ \E r \in R :
          /\ mode = r.mode
          /\ input_data = r.input_data
          /\ input_files = r.input_files
          /\ options = r.options
          /\ env = r.env
          /\ plan = r.plan
    /\ command = None
    /\ callerPc = "call"
    /\ result = None
    /\ items = <<>>
    /\ feeder = FeederAt("unspawned", 0, <<>>)
    /\ stdin = ClosedPipe
    /\ stdout = ClosedPipe
    /\ stderr = ClosedPipe
    /\ child = [pc |-> "unborn", op |-> "idle", outPos |-> 0, errPos |-> 0,
                nread |-> 0, eof |-> FALSE, status |-> "none"]
    /\ coll = [out |-> <<>>, err |-> <<>>, outEOF |-> FALSE, errEOF |-> FALSE]
    /\ stdinWritten = <<>>
    /\ stdoutWritten = <<>>
    /\ stderrWritten = <<>>

Init == InitOf(Requests)

Next ==
    \/ SpawnFails
    \/ Spawn
    \/ StreamReturn
    \/ FeederStep
    \/ ChildStep
    \/ CollectorStep
    \/ StreamStep

\* Every request, with a consumer that polls the stream until it ends (a
\* consumer that drops it is in NextStreaming below).
Spec == Init /\ [][Next]_vars

\* Buffered mode alone, with the scheduling tokio gives: every task that can
\* run is run, and the subprocess is scheduled by the OS.
NextBuffered ==
    \/ SpawnFails
    \/ Spawn
    \/ FeederStep
    \/ ChildStep
    \/ CollectorStep

FairSpec ==
    /\ InitOf(PipeRequests \cup FaultRequests)
    /\ [][NextBuffered]_vars
    /\ WF_vars(SpawnFails \/ Spawn)
    /\ WF_vars(FeederStep)
    /\ WF_vars(ChildStep)
    /\ WF_vars(CollectorStep)

\* Streaming mode alone: the feeder and the stream reader are polled whenever
\* they can run (tokio's scheduler and a consumer that keeps polling), the
\* subprocess is scheduled by the OS; the consumer may drop the stream at any
\* time, and nothing obliges it to.
NextStreaming ==
    \/ SpawnFails
    \/ Spawn
    \/ StreamReturn
    \/ FeederStep
    \/ ChildStep
    \/ StreamStep
    \/ StreamDrop

FairStreamSpec ==
    /\ InitOf(FairStreamRequests)
    /\ [][NextStreaming]_vars
    /\ WF_vars(SpawnFails \/ Spawn \/ StreamReturn)
    /\ WF_vars(FeederStep)
    /\ WF_vars(ChildStep)
    /\ WF_vars(StreamStep)

\* ------------------------------------------------------------------ claims

\* write_all waits for room in the stdin pipe.
FeederBlocked ==
    feeder.pc \in WritePcs /\ stdin.r /\ ~HasSpace(stdin)

\* The subprocess waits in its current blocking call.
ChildBlocked ==
    /\ child.pc = "running"
    /\ \/ child.op = "read" /\ stdin.buf = <<>> /\ stdin.w
       \/ child.op = "out" /\ stdout.r /\ ~HasSpace(stdout)
       \/ child.op = "err" /\ stderr.r /\ ~HasSpace(stderr)

\* wait_with_output can do nothing: nothing to read, no end of file, no exit.
CollectorBlocked ==
    /\ callerPc = "wait"
    /\ ~ /\ ConsumerRuns
         /\ \/ ~coll.outEOF /\ (stdout.buf # <<>> \/ ~stdout.w)
            \/ ~coll.errEOF /\ (stderr.buf # <<>> \/ ~stderr.w)
            \/ child.pc = "exited" /\ coll.outEOF /\ coll.errEOF
            \/ env.ioFault

\* C1: in buffered mode, for every pipe capacity and for input and output
\* larger than it, the feeder, the subprocess and the output collector are
\* never all blocked, and the execution call eventually returns.
C1_NoPipeDeadlock ==
    /\ [](~(FeederBlocked /\ ChildBlocked /\ CollectorBlocked))
    /\ <>(callerPc = "returned")

\* C1 witness: a call returned after more than a pipe's capacity went through
\* stdin, stdout and stderr each, with the collected output complete.
C1_Witness ==
    /\ callerPc = "returned" /\ mode = "text"
    /\ child.pc = "exited" /\ coll.outEOF /\ coll.errEOF
    /\ Len(stdinWritten) > env.cap
    /\ Len(stdoutWritten) > env.cap
    /\ Len(stderrWritten) > env.cap
    /\ feeder.pc = "ok"

\* The Ok items of a sequence of stream items.
OkItems(its) == SelectSeq(its, LAMBDA i : i.tag = "Ok")

\* What decoding a line gives (Ok(event) or an error); a line that is not
\* UTF-8 is never handed to the decoder.
Decoding(line) ==
    IF line = InvalidUtf8 THEN DecodeErr ELSE DeStreamEvent(ParseJson(line))

\* The decodings of all the lines that are not blank and do decode.
RECURSIVE AllDecodings(_)
AllDecodings(lines) ==
    IF lines = <<>> THEN <<>>
    ELSE IF Head(lines) \notin WhiteUnits /\ Decoding(Head(lines)).tag = "Ok"
    THEN <<Decoding(Head(lines))>> \o AllDecodings(Tail(lines))
    ELSE AllDecodings(Tail(lines))

\* The decodings of the non-blank lines that precede the first line that
\* cannot be read or decoded.
RECURSIVE GoodPrefix(_)
GoodPrefix(lines) ==
    IF lines = <<>> THEN <<>>
    ELSE IF Head(lines) \in WhiteUnits THEN GoodPrefix(Tail(lines))
    ELSE IF Decoding(Head(lines)).tag = "Ok"
    THEN <<Decoding(Head(lines))>> \o GoodPrefix(Tail(lines))
    ELSE <<>>

IsPrefix(a, b) == Len(a) <= Len(b) /\ a = SubSeq(b, 1, Len(a))

\* C2 as stated: once the stream has ended and the subprocess is gone, the Ok
\* events are the decodings of all the non-blank lines it wrote, in order,
\* whatever other lines (ones that do not decode, ones that cannot be read)
\* it wrote among them.
C2_AllLinesYielded ==
    (mode = "stream" /\ callerPc = "ended" /\ child.pc = "exited")
        => OkItems(items) = AllDecodings(stdoutWritten)

\* C2, amended: the Ok events yielded are always a prefix of, and once the
\* stream has yielded its Err item, failed to read a line or ended exactly,
\* the decodings of the non-blank lines written
\* before the first line that cannot be read or decoded, in the order written
\* (blank lines give no item; nothing is reordered, duplicated or dropped).
C2_OrderedUpToFirstFailure ==
    mode = "stream" =>
        /\ IsPrefix(OkItems(items), GoodPrefix(stdoutWritten))
        /\ callerPc \in {"failed", "unread", "ended"} =>
              OkItems(items) = GoodPrefix(stdoutWritten)

\* C2 witness: a stream ended after yielding two events or more, with a blank
\* line written between two lines that decode.
C2_Witness ==
    /\ mode = "stream" /\ callerPc = "ended"
    /\ Len(OkItems(items)) >= 2
    /\ \E i, j, k \in 1..Len(stdoutWritten) :
          /\ i < j /\ j < k
          /\ Decoding(stdoutWritten[i]).tag = "Ok"
          /\ stdoutWritten[j] \in WhiteUnits
          /\ Decoding(stdoutWritten[k]).tag = "Ok"

\* The run met no failure of the environment: the spawn succeeded and
\* wait_with_output delivered the exit status and the output.
Collected ==
    /\ mode \in {"text", "json"} /\ callerPc = "returned"
    /\ env.spawnOk /\ ~env.ioFault

\* C3: in buffered mode, when the subprocess exited with a non-zero status,
\* text() and json() return RuntimeError, and its message is the complete
\* text written to stderr (as from_utf8_lossy renders it), whatever was
\* written to stdout.
C3_NonZeroExitIsRuntimeError ==
    (Collected /\ ~success(child.status)) =>
        /\ Unwrap(result).tag = "Err"
        /\ Unwrap(result).kind = "RuntimeError"
        /\ Unwrap(result).msg = Concat(from_utf8_lossy(stderrWritten))
        /\ to_string(Unwrap(result))
             = "Runtime Error: " \o Concat(from_utf8_lossy(stderrWritten))

\* C3 witness: exit 1 with "Critical Failure" on stderr and a document on
\* stdout.
C3_Witness ==
    /\ Collected /\ child.status = "exit 1"
    /\ stderrWritten = Critical
    /\ stdoutWritten = DocOk
    /\ to_string(Unwrap(result)) = "Runtime Error: Critical Failure\n"

\* The JSON document shape of json mode: an object with a string `response`,
\* an optional `stats` object and an optional `error` object {type, message,
\* optional integer code}.
CompletedResponseShape(v) ==
    /\ v.t = "obj"
    /\ IsStrField(v.o, "response")
    /\ Populated(v.o, "stats") => (v.o["stats"].t = "obj" /\ GeminiStatsOk(v.o["stats"]))
    /\ Populated(v.o, "error") =>
          /\ v.o["error"].t = "obj"
          /\ IsStrField(v.o["error"].o, "type")
          /\ IsStrField(v.o["error"].o, "message")
          /\ Populated(v.o["error"].o, "code") => v.o["error"].o["code"].t = "num"

\* C4 as stated: json() on exit 0 with stdout that is not a JSON document of
\* the CompletedResponse shape returns JsonParseFailed.
C4_BadDocumentIsParseFailure ==
    (Collected /\ mode = "json" /\ success(child.status)
       /\ ~CompletedResponseShape(from_slice(stdoutWritten)))
        => (Unwrap(result).tag = "Err" /\ Unwrap(result).kind = "JsonParseFailed")

\* C5: json() on exit 0 with a document of the CompletedResponse shape whose
\* error field is populated returns ApiError carrying the error's message,
\* never an Ok value.
C5_ErrorFieldIsApiError ==
    (Collected /\ mode = "json" /\ success(child.status)
       /\ CompletedResponseShape(from_slice(stdoutWritten))
       /\ Populated(from_slice(stdoutWritten).o, "error"))
        => /\ Unwrap(result).tag = "Err"
           /\ Unwrap(result).kind = "ApiError"
           /\ Unwrap(result).msg = from_slice(stdoutWritten).o["error"].o["message"].s

\* C5 witness: exit 0 and a body whose error says "Quota exceeded".
C5_Witness ==
    /\ Collected /\ mode = "json" /\ success(child.status)
    /\ stdoutWritten = DocApiError
    /\ to_string(Unwrap(result)) = "Gemini API Error: Quota exceeded"

\* Line k is the first written line that is not blank and does not decode.
FirstFailure(k) ==
    /\ k \in 1..Len(stdoutWritten)
    /\ stdoutWritten[k] \notin WhiteUnits
    /\ Decoding(stdoutWritten[k]).tag = "Err"
    /\ \A j \in 1..(k - 1) :
          stdoutWritten[j] \in WhiteUnits \/ Decoding(stdoutWritten[j]).tag = "Ok"

\* C6 as stated: the first non-blank line that fails to decode yields one
\* Err(JsonParseFailed), the last item, after the events of the earlier
\* lines; no later line yields anything.
C6_DecodeFailureEndsStream ==
    (mode = "stream" /\ callerPc = "ended") =>
        \A k \in 1..Len(stdoutWritten) :
            FirstFailure(k) =>
                items = GoodPrefix(SubSeq(stdoutWritten, 1, k - 1))
                        \o <<Err("JsonParseFailed", "", "from_str")>>

\* What write_stdin writes for the files from index i on.
RECURSIVE FilesPayload(_)
FilesPayload(files) ==
    IF files = <<>> THEN <<>>
    ELSE FileContent(Head(files)) \o <<NL>> \o FilesPayload(Tail(files))

\* The payload of a request: the context and a newline, then each file and a
\* newline.
Payload ==
    (IF IsSome(input_data) THEN Unwrap(input_data) \o <<NL>> ELSE <<>>)
    \o FilesPayload(input_files)

\* C7: when no I/O failure occurs the feeder has written exactly the context
\* and a newline (if set), then each file's content and a newline in listed
\* order, and nothing else, and has then closed the writer; with no context
\* and no files it writes nothing and closes the writer.
C7_FeederPayload ==
    /\ feeder.pc = "ok" => (stdinWritten = Payload /\ ~stdin.w)
    /\ (feeder.pc = "ok" /\ input_data = None /\ input_files = <<>>)
          => stdinWritten = <<>>
    /\ feeder.pc \in WritePcs \cup {"read", "spawned"} => stdin.w

\* C7 witness: a context and two files, more than the pipe holds, all
\* written.
C7_Witness ==
    /\ feeder.pc = "ok"
    /\ IsSome(input_data) /\ Len(input_files) >= 2
    /\ input_files[1] # input_files[2]
    /\ Len(stdinWritten) > env.cap

\* The payload up to the first file that cannot be read.
RECURSIVE ReadablePayload(_)
ReadablePayload(files) ==
    IF files = <<>> \/ Head(files) \notin Readable THEN <<>>
    ELSE FileContent(Head(files)) \o <<NL>> \o ReadablePayload(Tail(files))

\* The result the exit status and the output written determine.
OutcomeOf(status, out, err) ==
    IF mode = "text" THEN text(execute_process(status, out, err))
    ELSE json(execute_process(status, out, err))

\* C8: a feeder failure (an unreadable file, a write to a broken pipe) is
\* never surfaced: the value text() and json() return is the one the exit
\* status and the output determine, every Err item of stream() comes from
\* decoding a line, and the feeder writes nothing after its first failure
\* (what it wrote never goes past the file that could not be read, and
\* nothing is written once it has failed).
C8_FeederFailureSilent ==
    /\ Collected =>
          Unwrap(result) = OutcomeOf(child.status, stdoutWritten, stderrWritten)
    /\ (mode = "stream" /\ env.spawnOk /\ callerPc \notin {"call", "spawned"}) =>
          /\ result = Some(Ok("Stream"))
          /\ \A i \in 1..Len(items) :
                items[i].tag = "Err" => items[i].src = "from_str"
    /\ IsPrefix(stdinWritten,
                (IF IsSome(input_data) THEN Unwrap(input_data) \o <<NL>> ELSE <<>>)
                \o ReadablePayload(input_files))
    /\ feeder.pc = "err" => ~stdin.w

\* C8 witness: the feeder failed on a file it could not read and the call
\* returned Ok.
C8_Witness ==
    /\ Collected /\ feeder.pc = "err"
    /\ \E i \in 1..Len(input_files) : input_files[i] \notin Readable
    /\ Unwrap(result).tag = "Ok"

\* The stream has ended on a line that could not be read: the first line that
\* is neither blank nor decodable is one that is not valid UTF-8.
EndedOnReadFailure ==
    /\ mode = "stream" /\ callerPc = "ended"
    /\ \E k \in 1..Len(stdoutWritten) :
          FirstFailure(k) /\ stdoutWritten[k] = InvalidUtf8

\* C9 as stated: every failure while reading the output reaches the caller as
\* an error value; the stream never ends as a normal end of stream because of
\* a read failure.
C9_NoReadFailureSwallowed ==
    /\ EndedOnReadFailure => (items # <<>> /\ items[Len(items)].tag = "Err")
    /\ (mode \in {"text", "json"} /\ callerPc = "returned" /\ child.pc # "exited")
          => Unwrap(result).tag = "Err"

\* C10 as stated: text() returns an error whenever the subprocess printed to
\* stderr, also when it exited with status 0.
C10_StderrOutputIsError ==
    (Collected /\ mode = "text" /\ stderrWritten # <<>>)
        => (Unwrap(result).tag = "Err" /\ Unwrap(result).kind = "RuntimeError")

\* The kind the four listed causes assign to a run: a failed spawn, a
\* non-zero exit, a body that does not decode, a populated error field.
ListedCause ==
    IF ~env.spawnOk THEN "CliLaunchFailed"
    ELSE IF child.pc = "exited" /\ ~success(child.status) THEN "RuntimeError"
    ELSE IF child.pc = "exited" /\ mode = "json"
            /\ DeGeminiJsonOutput(from_slice(stdoutWritten)).tag = "Err"
    THEN "JsonParseFailed"
    ELSE IF child.pc = "exited" /\ mode = "json"
            /\ IsSome(DeGeminiJsonOutput(from_slice(stdoutWritten)).val.error)
    THEN "ApiError"
    ELSE "none"

\* C11 as stated: every Err that text() and json() return has the kind its
\* cause assigns (failed spawn: CliLaunchFailed; non-zero exit: RuntimeError;
\* decode failure: JsonParseFailed; populated error field on exit 0:
\* ApiError) and one of these causes is there; stream() fails with
\* CliLaunchFailed on a failed spawn only, and each of its Err items is a
\* JsonParseFailed.
C11_ClassificationByCause ==
    /\ (mode \in {"text", "json"} /\ callerPc = "returned"
          /\ Unwrap(result).tag = "Err")
          => Unwrap(result).kind = ListedCause
    /\ (mode = "stream" /\ IsSome(result) /\ Unwrap(result).tag = "Err")
          => (Unwrap(result).kind = "CliLaunchFailed" /\ ~env.spawnOk)
    /\ \A i \in 1..Len(items) :
          items[i].tag = "Err" => items[i].kind = "JsonParseFailed"

\* C12 as stated: an execution method returns CliLaunchFailed exactly when
\* the spawn failed, never for a failure after the subprocess was started.
C12_LaunchFailedIffSpawnFailed ==
    (callerPc # "call" /\ IsSome(result)) =>
        ((Unwrap(result).tag = "Err" /\ Unwrap(result).kind = "CliLaunchFailed")
            <=> ~env.spawnOk)

\* Every line written so far is blank or decodes.
AllLinesGood ==
    \A i \in 1..Len(stdoutWritten) :
        stdoutWritten[i] \in WhiteUnits \/ Decoding(stdoutWritten[i]).tag = "Ok"

\* C13 as stated: the event sequence ends only when the subprocess has closed
\* stdout (every line it wrote was skipped or yielded) or when the last item
\* is a decode error; the exit status plays no part: valid lines followed by
\* a non-zero exit give the Ok events of those lines and then the end, and
\* no item is a RuntimeError.
C13_EndsOnEofOrDecodeError ==
    mode = "stream" =>
        /\ callerPc = "ended" =>
              \/ items # <<>> /\ items[Len(items)].tag = "Err"
              \/ child.pc = "exited" /\ AllLinesGood
        /\ (callerPc = "ended" /\ child.pc = "exited" /\ AllLinesGood) =>
              items = AllDecodings(stdoutWritten)
        /\ \A i \in 1..Len(items) :
              items[i].tag = "Err" => items[i].kind # "RuntimeError"

\* C14: dropping the event sequence before it has ended closes the read end
\* of stdout and changes neither the subprocess nor the feeder nor the stdin
\* pipe; a subprocess that is gone after the drop exited by itself or was
\* killed by the SIGPIPE of its own write; and after the drop the feeder
\* still runs to its end (all written, or a failure) and releases the stdin
\* writer.
C14_DropLeavesFeederAndChild ==
    /\ [][(callerPc \in {"stream", "failed"} /\ callerPc' = "dropped") =>
             (~stdout'.r /\ child' = child /\ feeder' = feeder /\ stdin' = stdin)]_vars
    /\ [](callerPc = "dropped" /\ child.pc = "exited"
             => child.status \in {plan.code, "SIGPIPE"})
    /\ (callerPc = "dropped") ~> (feeder.pc \in {"ok", "err"} /\ ~stdin.w)

\* C14 witness: the sequence was dropped with events not yet yielded, the
\* feeder wrote a payload larger than the pipe to its end, and the subprocess
\* exited by itself.
C14_Witness ==
    /\ callerPc = "dropped"
    /\ Len(OkItems(items)) < Len(GoodPrefix(stdoutWritten))
    /\ feeder.pc = "ok" /\ ~stdin.w
    /\ Len(stdinWritten) > env.cap
    /\ child.pc = "exited" /\ child.status = plan.code

\* The five parts of the argument vector after the format, from the
\* configuration.
OptionalArgs ==
    (IF options.model # None THEN <<"--model", options.model[1]>> ELSE <<>>)
    \o (IF options.yolo THEN <<"--yolo">> ELSE <<>>)
    \o (IF options.debug THEN <<"--debug">> ELSE <<>>)
    \o (IF Len(options.include_dirs) >= 1
        THEN <<"--include-directories", join(options.include_dirs, ",")>>
        ELSE <<>>)

\* C15: the argument vector built for a spawn is "--output-format" and the
\* format first, then "--model" and the name iff a model is set, "--yolo" iff
\* auto-approve is set, "--debug" iff diagnostics is set,
\* "--include-directories" and the directories joined by "," iff there is
\* one, and the prompt as the one last argument; it depends on the
\* configuration and the format alone.
C15_ArgumentVector ==
    IsSome(command) =>
        LET args == Unwrap(command).args
        IN  /\ Len(args) = 3 + Len(OptionalArgs)
            /\ args[1] = "--output-format"
            /\ args[2] = format_of(mode)
            /\ SubSeq(args, 3, Len(args) - 1) = OptionalArgs
            /\ args[Len(args)] = options.prompt

\* C15 witness: every option set, another binary than the default, two
\* include directories, streaming format.
C15_Witness ==
    /\ IsSome(command)
    /\ Unwrap(command).program = "./mock"
    /\ Unwrap(command).args
         = <<"--output-format", "stream-json", "--model", "my-model", "--yolo",
             "--debug", "--include-directories", "src,docs", "test">>

\* C16: the writer is closed whenever the feeder has stopped, by whichever
\* exit (all written, an unreadable file, a broken pipe, nothing to write);
\* the spawned feeder does stop; and a subprocess that reads its input to the
\* end observes end of input, unless a SIGPIPE of its own write killed it
\* first.
C16_WriterReleased ==
    /\ [](feeder.pc \in {"ok", "err"} => ~stdin.w)
    /\ (feeder.pc = "spawned") ~> (feeder.pc \in {"ok", "err"})
    /\ (child.pc = "running" /\ plan.reads = "eof")
          ~> (child.eof \/ child.status = "SIGPIPE")

\* C16 witness: the feeder stopped on a file it could not read, after
\* writing the context, and the subprocess read to the end of its input.
C16_Witness ==
    /\ mode \in {"text", "json"}
    /\ feeder.pc = "err" /\ ~stdin.w
    /\ \E i \in 1..Len(input_files) : input_files[i] \notin Readable
    /\ stdinWritten # <<>>
    /\ child.eof /\ child.nread = Len(stdinWritten)

\* C17 as stated: with a consumer that keeps polling, every line the
\* subprocess writes is eventually yielded, whatever lines it writes.
C17_EveryLineYielded ==
    \/ <>(callerPc \in {"dropped", "returned"})
    \/ <>(callerPc = "ended" /\ child.pc = "exited"
            /\ OkItems(items) = AllDecodings(stdoutWritten))

\* C17, amended: in streaming mode neither the feeder nor the reader waits
\* for the other to finish: whatever the reader does, the feeder comes to its
\* end (all written, or a failure), and with a consumer that keeps polling
\* (one that does not drop the stream) the sequence ends whatever the feeder
\* does, having yielded every non-blank line written before the first line
\* that cannot be read or decoded.
C17_FeederIndependentOfReader ==
    <>(/\ callerPc = "returned" \/ feeder.pc \in {"ok", "err"}
       /\ \/ callerPc \in {"dropped", "returned"}
          \/ callerPc = "ended" /\ OkItems(items) = GoodPrefix(stdoutWritten))

\* C17 witness: the stream ended with three events yielded while the feeder
\* wrote, to its end, a payload larger than the stdin pipe.
C17_Witness ==
    /\ callerPc = "ended"
    /\ Len(OkItems(items)) = 3
    /\ feeder.pc = "ok" /\ Len(stdinWritten) > env.cap
    /\ child.nread = Len(stdinWritten)

\* C18: json() on a subprocess that exited non-zero returns RuntimeError,
\* whatever stdout holds; JsonParseFailed and ApiError are returned only for
\* a subprocess that exited with status 0.
C18_StatusBeforeDecode ==
    /\ (Collected /\ mode = "json" /\ ~success(child.status))
          => (Unwrap(result).tag = "Err" /\ Unwrap(result).kind = "RuntimeError")
    /\ (mode = "json" /\ callerPc = "returned" /\ Unwrap(result).tag = "Err"
          /\ Unwrap(result).kind \in {"JsonParseFailed", "ApiError"})
          => (child.pc = "exited" /\ success(child.status))

\* C18 witness: exit 1 with a body whose error field is populated, and exit 1
\* is what the caller is told.
C18_Witness ==
    /\ Collected /\ mode = "json" /\ child.status = "exit 1"
    /\ stdoutWritten = DocApiError
    /\ Unwrap(result).kind = "RuntimeError"

\* A well-formed JSON object whose `type` names no variant of StreamEvent.
UnknownType(line) ==
    /\ ParseJson(line).t = "obj"
    /\ IsStrField(ParseJson(line).o, "type")
    /\ ParseJson(line).o["type"].s \notin {"init", "message", "tool_use",
                                           "tool_result", "result", "error"}

\* The number of lines the stream reader has taken from the pipe while it is
\* still reading.
LinesTaken == Len(stdoutWritten) - Len(stdout.buf)

\* C19: a line of an unknown type is never passed over (a reader still
\* reading has taken no such line), and once the stream has failed on such a
\* line (the Err item yielded, the end seen or not) the items are the events of the lines before it and one
\* Err(JsonParseFailed), the last item.
C19_UnknownTypeIsDecodeFailure ==
    mode = "stream" =>
        /\ callerPc = "stream" =>
              \A k \in 1..LinesTaken : ~UnknownType(stdoutWritten[k])
        /\ callerPc \in {"failed", "ended"} =>
              \A k \in 1..Len(stdoutWritten) :
                  (FirstFailure(k) /\ UnknownType(stdoutWritten[k])) =>
                      /\ items = GoodPrefix(SubSeq(stdoutWritten, 1, k - 1))
                                 \o <<Err("JsonParseFailed", "", "from_str")>>
                      /\ to_string(items[Len(items)]) = "Failed to parse JSON output"

\* C19 witness: an event, then a line of type "debug", then a line that was
\* written and never yielded.
C19_Witness ==
    /\ mode = "stream" /\ callerPc = "ended"
    /\ Len(stdoutWritten) = 3
    /\ Decoding(stdoutWritten[1]).tag = "Ok"
    /\ stdoutWritten[2] = LineUnknownType
    /\ Len(items) = 2 /\ items[2].tag = "Err"

\* C20: json() returns Ok(r) only for a subprocess that exited with status 0
\* and a stdout that decodes, r is the decoded value, and r.error is None.
C20_OkHasNoError ==
    (mode = "json" /\ callerPc = "returned" /\ Unwrap(result).tag = "Ok") =>
        /\ child.pc = "exited" /\ success(child.status)
        /\ DeGeminiJsonOutput(from_slice(stdoutWritten)).tag = "Ok"
        /\ Unwrap(result).val = DeGeminiJsonOutput(from_slice(stdoutWritten)).val
        /\ Unwrap(result).val.error = None

\* C20 witness: a body with "error": null gives Ok.
C20_Witness ==
    /\ mode = "json" /\ callerPc = "returned"
    /\ stdoutWritten = DocErrorNull
    /\ Unwrap(result).tag = "Ok" /\ Unwrap(result).val.response = "hi"

\* The subprocess waits in a write to stderr for room in the pipe.
BlockedOnStderr ==
    child.pc = "running" /\ child.op = "err" /\ stderr.r /\ ~HasSpace(stderr)

\* C21 as stated: in streaming mode, with a consumer that keeps polling, a
\* subprocess waiting in a write to stderr does not wait there forever, and
\* what it writes to stderr changes nothing in the delivery of its stdout
\* events: once the stream has ended and the subprocess is gone, the events
\* yielded are those of the lines it had to write (up to the first line that
\* cannot be decoded).
C21_StderrDoesNotAffectEvents ==
    /\ BlockedOnStderr ~> ~BlockedOnStderr
    /\ []((callerPc = "ended" /\ child.pc = "exited")
              => OkItems(items) = GoodPrefix(plan.out))

=============================================================================
